---- MODULE Spec2Model ----
(***************************************************************************)
(* Model of the messaging server's per-bot scope cache                     *)
(* (src/src/base/scopeable.ts, ScopeableService) and of the Slack channel  *)
(* (src/src/api.ts, SlackChannel: receive, send, the interactive and       *)
(* message listeners).                                                     *)
(*                                                                         *)
(* JavaScript runs one callback at a time: an async function runs without  *)
(* interruption from one await to the next.  Every action below is one     *)
(* such uninterrupted segment.                                             *)
(***************************************************************************)
EXTENDS Integers, Sequences, FiniteSets, TLC

\* ------------------------------------------------------------------ bounds
MaxCalls == 4

\* ------------------------------------------------------------ scope cache
BotIds == {"b1", "b2"}
Services == {"conversations", "messages"}

\* The values a slot of this.scopes, or a result of createScope, can hold.
UndefinedV == [kind |-> "undefined", id |-> 0]
FalsyV == [kind |-> "falsy", id |-> 0]
SharedInst == [kind |-> "inst", id |-> 0]
Inst(n) == [kind |-> "inst", id |-> n]

\* What one invocation of the abstract createScope can do: return a new
\* object, return an object it returned before, return a falsy value
\* (null, 0, '', false, undefined), or throw.
CreateKinds == {"fresh", "shared", "falsy", "throw"}

VARIABLES
  scopes,     \* scopes[svc][botId]: the private map of each ScopeableService
  nextInst,   \* identity of the next object a createScope allocates
  creates,    \* history: the createScope invocations, in order
  calls       \* history: the forBot calls, in order

scopeVars == <<scopes, nextInst, creates, calls>>

\* JavaScript truthiness of a stored value.
Truthy(v) == v.kind = "inst"

\* let scope = this.scopes[botId]
Lookup(s, botId) == s[botId]

\* Variant: the map is never consulted.
AlwaysCreate(scope) == TRUE

\* if (!scope)
NeedsCreate(scope) == ~Truthy(scope)

\* scope = this.createScope(botId): the value of a createScope that returns.
CreateScopeValue(ck, n) ==
  CASE ck = "fresh" -> Inst(n)
    [] ck = "shared" -> SharedInst
    [] OTHER -> FalsyV

\* this.createScope(botId): the id forBot hands to createScope.
CreateArg(botId) == botId

\* Variant: the created scope is returned but never stored.
StoreNothing(s, botId, scope) == s

\* this.scopes[botId] = scope
Store(s, botId, scope) == [s EXCEPT ![botId] = scope]

\* Variant: a failed creation leaves a placeholder in the map.
AfterThrowCached(s, botId) == [s EXCEPT ![botId] = SharedInst]

\* createScope threw: line 8 is never reached, the map is as it was.
AfterThrow(s, botId) == s

\* forBot(botId) on a service whose map is s, when a createScope invoked by
\* it would behave as ck and allocate object n.  The result tells the map
\* afterwards, whether the call threw, the value returned, and the ids
\* createScope was invoked with.
ForBot(s, botId, ck, n) ==
  LET scope == Lookup(s, botId) IN
  IF NeedsCreate(scope)
  THEN IF ck = "throw"
       THEN [scopes |-> AfterThrow(s, botId), threw |-> TRUE, value |-> UndefinedV,
             invoked |-> <<CreateArg(botId)>>]
       ELSE LET created == CreateScopeValue(ck, n) IN
            [scopes |-> Store(s, botId, created), threw |-> FALSE,
             value |-> created, invoked |-> <<CreateArg(botId)>>]
  ELSE [scopes |-> s, threw |-> FALSE, value |-> scope, invoked |-> <<>>]

\* The history entries of one forBot call.
CreateEntries(svc, r, ck) ==
  [i \in 1..Len(r.invoked) |-> [svc |-> svc, bot |-> r.invoked[i], ck |-> ck]]

CallEntry(svc, botId, r) ==
  [svc |-> svc, bot |-> botId, threw |-> r.threw, value |-> r.value,
   invoked |-> Len(r.invoked) > 0]

\* The effect of one forBot call on the cache and the histories.
DoForBot(svc, botId, ck) ==
  LET r == ForBot(scopes[svc], botId, ck, nextInst) IN
  /\ scopes' = [scopes EXCEPT ![svc] = r.scopes]
  /\ nextInst' = IF Len(r.invoked) > 0 /\ ck = "fresh" THEN nextInst + 1 ELSE nextInst
  /\ creates' = creates \o CreateEntries(svc, r, ck)
  /\ calls' = Append(calls, CallEntry(svc, botId, r))

ScopeInit ==
  /\ scopes = [svc \in Services |-> [b \in BotIds |-> UndefinedV]]
  /\ nextInst = 1
  /\ creates = <<>>
  /\ calls = <<>>

\* A caller invokes forBot on a service directly.
CallForBot ==
  /\ Len(calls) < MaxCalls
  /\ \E svc \in Services, botId \in BotIds, ck \in CreateKinds :
       DoForBot(svc, botId, ck)


\* ---------------------------------------------------------------- channel
\* One SlackChannel instance: this.botId is fixed for its lifetime.
ThisBotId == "b1"

\* Concurrent invocations (webhook callbacks and /send requests in flight).
Procs == {1, 2}

\* setupRenderers(): the renderer chain in declared order.
Renderers == <<"card", "text", "image", "carousel", "choices", "feedback">>

\* setupSenders(): the sender chain in declared order.
Senders == <<"typing", "common">>

\* Outbound payloads, by shape.
Payload(t) == [type |-> t]
PayloadTypes == {"text", "image", "card", "choices", "feedback"}

\* Conversation ids a caller may pass to send; "c9" is never stored.
ConvIds == {"c1", "c9"}

\* Where a renderer may throw: nowhere, or in handles or render of one entry.
NoFail == <<0, "none">>
FailPoints == {NoFail} \cup ((1..Len(Renderers)) \X {"handles", "render"})

\* How a raw event carries its channel and its user.
ObjRef(id) == [shape |-> "object", id |-> id]
StrRef(id) == [shape |-> "string", id |-> id]
NoRef == [shape |-> "missing", id |-> ""]
RawEvents ==
  { [channel |-> ObjRef("C1"), user |-> ObjRef("U1")],
    [channel |-> StrRef("C1"), user |-> StrRef("U1")],
    [channel |-> StrRef("C2"), user |-> ObjRef("U1")] }

\* Action ids, as sequences of tokens ('' is the empty sequence).
ActionIds ==
  { <<>>, <<"discard_action">>, <<"discard_action", "_1">>,
    <<"replace_buttons">>, <<"replace_buttons", "_1">>,
    <<"remove_buttons", "_1">>, <<"say">>, <<"say", "discard_action">> }

\* Raw events, among them events that lack the channel or the user.
LooseEvents ==
  RawEvents \cup { [channel |-> NoRef, user |-> NoRef],
                   [channel |-> ObjRef("C1"), user |-> NoRef] }

\* Message events: payload.subtype, payload.bot_id and the three places a
\* text is looked for ("undefined" is an absent field).
Subtypes == {"undefined", "bot_message", "message_deleted", "message_changed", "file_share"}
BotFlags == {"undefined", "", "B1"}
Texts == {"undefined", "", "hi"}
FileNames == {"undefined", "", "a.png"}
FileTitles == {"undefined", "", "Title"}

\* Interactive payloads: no actions entry, an entry without selected_option,
\* or an entry with one.
ActionShapes == {"none", "bare", "full"}

\* block_id of a feedback action, as tokens; the selected option's value.
BlockIds == { <<"feedback-", "42">>, <<"42">>, <<"x", "feedback-", "42">> }
Ratings == {"1", "abc"}

\* The inputs a specification draws from.
AllInputs ==
  [types |-> PayloadTypes, convs |-> ConvIds, creates |-> CreateKinds,
   fails |-> FailPoints, events |-> RawEvents]
LooseInputs == [AllInputs EXCEPT !.events = LooseEvents]
FewInputs ==
  [types |-> {"text", "card"}, convs |-> ConvIds, creates |-> CreateKinds,
   fails |-> {NoFail, <<1, "handles">>, <<2, "render">>},
   events |-> RawEvents]

VARIABLES
  pc,         \* pc[p]: where invocation p is suspended
  kind,       \* kind[p]: which entry point p runs
  heap,       \* heap[p].caller: the caller's payload object P;
              \* heap[p].ctx: the object cloneDeep allocated for p's context
  arg,        \* arg[p]: the arguments p was called with (history)
  ctx,        \* ctx[p]: p's SlackContext
  sidx,       \* sidx[p]: index of the sender p awaits
  rcv,        \* rcv[p]: the locals of p's receive
  trace,      \* trace[p]: the calls p made on its collaborators, in order
  mutated,    \* mutated[p]: what the caller wrote to P while p was suspended
  convStore,  \* the conversations stored for ThisBotId
  msgStore    \* the messages stored for ThisBotId, in creation order

chanVars == <<pc, kind, heap, arg, ctx, sidx, rcv, trace, mutated, convStore, msgStore>>

Ev(op, who) == [op |-> op, who |-> who]

NoCtx == [at |-> "none", blocks |-> <<>>, handlers |-> <<>>, channelId |-> "none"]
NoInbound == [type |-> "none", text |-> "", payload |-> ""]
NoMsg == [subtype |-> "undefined", botId |-> "undefined", text |-> "undefined",
          fileName |-> "undefined", fileTitle |-> "undefined"]
NoArg == [conversationId |-> "none", payload |-> Payload("none"),
          event |-> [channel |-> NoRef, user |-> NoRef], actionId |-> <<>>,
          label |-> "", value |-> "", msg |-> NoMsg,
          actions |-> "none", blockId |-> <<>>, selected |-> "undefined"]
NoRcv == [channelId |-> "none", userId |-> "none", payload |-> NoInbound,
          conversationId |-> "none", eventId |-> <<>>, feedback |-> "none"]

\* ------------------------------------------------------------------- send
\* context.payload: the object the context's payload field refers to.
CtxPayload(h, c) == IF c.at = "caller" THEN h.caller ELSE h.ctx

\* context.payload = v (a renderer replacing the payload).
SetCtxPayload(h, c, v) ==
  IF c.at = "caller" THEN [h EXCEPT !.caller = v] ELSE [h EXCEPT !.ctx = v]

\* Variant: the context refers to the caller's object.
CloneAlias(h) == [heap |-> h, at |-> "caller"]

\* _.cloneDeep(payload): a new object holding a copy of the caller's.
CloneDeep(h) == [heap |-> [h EXCEPT !.ctx = h.caller], at |-> "ctx"]

\* conversation?.userId!
ChannelIdOf(conversation) ==
  IF conversation.found THEN conversation.userId ELSE "undefined"

\* conversations.forBot(botId).get(conversationId), once resolved.
GetConversation(store, conversationId) ==
  IF \E c \in store : c.id = conversationId
  THEN LET c == CHOOSE c \in store : c.id = conversationId IN
       [found |-> TRUE, id |-> c.id, userId |-> c.userId]
  ELSE [found |-> FALSE, id |-> "undefined", userId |-> "undefined"]

\* The context send builds.
NewContext(at, conversation) ==
  [at |-> at, blocks |-> <<>>, handlers |-> <<>>,
   channelId |-> ChannelIdOf(conversation)]

\* What send does with the conversation get resolved to: it goes on to the
\* renderers whether or not there is one.
AfterGet(conversation) == "render"

\* renderer.handles(context), by payload shape.
Handles(r, payload) ==
  CASE r = "card" -> payload.type = "card"
    [] r = "text" -> payload.type \in {"text", "choices"}
    [] r = "image" -> payload.type = "image"
    [] r = "carousel" -> payload.type = "carousel"
    [] r = "choices" -> payload.type = "choices"
    [] r = "feedback" -> payload.type = "feedback"
    [] OTHER -> FALSE

\* renderer.render(context): the payload afterwards.
RenderPayload(r, payload) ==
  IF r = "card" THEN Payload("carousel") ELSE payload

\* renderer.render(context): the blocks afterwards.
RenderBlocks(r, blocks) ==
  IF r = "card" THEN blocks ELSE Append(blocks, r)

\* context.handlers.push('id')
PushHandler(c) == [c EXCEPT !.handlers = Append(@, "id")]

\* Variant: the loop stops at the first renderer that fired (first match).
StopAfterFirst(i) == Len(Renderers) + 1

\* The entry the renderer loop consults after entry i has rendered.
NextRenderer(i) == i + 1

\* for (const renderer of this.renderers) { ... } from entry i on.
RECURSIVE RunRenderers(_, _, _, _, _)
RunRenderers(h, c, t, i, fail) ==
  IF i > Len(Renderers)
  THEN [heap |-> h, ctx |-> c, trace |-> t, failed |-> FALSE]
  ELSE LET r == Renderers[i]
           t1 == Append(t, Ev("r.handles", r))
       IN
       IF fail = <<i, "handles">>
       THEN [heap |-> h, ctx |-> c, trace |-> Append(t1, Ev("r.throw", r)), failed |-> TRUE]
       ELSE IF Handles(r, CtxPayload(h, c))
            THEN LET t2 == Append(t1, Ev("r.render", r)) IN
                 IF fail = <<i, "render">>
                 THEN [heap |-> h, ctx |-> c, trace |-> Append(t2, Ev("r.throw", r)),
                       failed |-> TRUE]
                 ELSE RunRenderers(
                        SetCtxPayload(h, c, RenderPayload(r, CtxPayload(h, c))),
                        PushHandler([c EXCEPT !.blocks = RenderBlocks(r, @)]),
                        t2, NextRenderer(i), fail)
            ELSE RunRenderers(h, c, t1, i + 1, fail)

\* Variant: sender.send is not awaited, the loop goes on at once.
RECURSIVE RunSendersNoAwait(_, _, _)
RunSendersNoAwait(t, i, hs) ==
  IF i > Len(Senders)
  THEN [trace |-> t, pc |-> "done", sidx |-> 0]
  ELSE LET t1 == Append(t, Ev("s.handles", Senders[i])) IN
       IF hs[i]
       THEN RunSendersNoAwait(Append(t1, Ev("s.send", Senders[i])), i + 1, hs)
       ELSE RunSendersNoAwait(t1, i + 1, hs)

\* for (const sender of this.senders) { ... } from entry i on, up to the next
\* await: hs[j] is what sender j's handles answers.
RECURSIVE RunSenders(_, _, _)
RunSenders(t, i, hs) ==
  IF i > Len(Senders)
  THEN [trace |-> t, pc |-> "done", sidx |-> 0]
  ELSE LET t1 == Append(t, Ev("s.handles", Senders[i])) IN
       IF hs[i]
       THEN [trace |-> Append(t1, Ev("s.send", Senders[i])), pc |-> "awaitSend", sidx |-> i]
       ELSE RunSenders(t1, i + 1, hs)

\* Variant: a renderer's exception is swallowed and the senders run.
IgnoreRendererThrow(rr, sr) == sr

\* A renderer threw: the exception leaves both loops, send rejects.  rr is
\* the renderer loop's result, sr what the sender loop would have done.
AfterRendererThrow(rr, sr) == [trace |-> rr.trace, pc |-> "failed", sidx |-> 0]

\* Variant: a sender's rejection is swallowed and the loop goes on.
SwallowSendRejected(t, i, hs) ==
  RunSenders(Append(t, Ev("s.reject", Senders[i])), i + 1, hs)

\* The awaited sender.send rejected: the exception leaves the loop.
AfterSendRejected(t, i, hs) ==
  [trace |-> Append(t, Ev("s.reject", Senders[i])), pc |-> "failed", sidx |-> 0]

\* send(conversationId, payload), up to its first await: forBot runs, then
\* get is called and send suspends (or forBot throws, or get is called on a
\* falsy scope, and send rejects).
SendStart(p, in) ==
  /\ pc[p] = "idle"
  /\ \E conversationId \in in.convs, t \in in.types, ck \in in.creates :
       LET r == ForBot(scopes["conversations"], ThisBotId, ck, nextInst)
           ok == ~r.threw /\ Truthy(r.value)
       IN
       /\ DoForBot("conversations", ThisBotId, ck)
       /\ kind' = [kind EXCEPT ![p] = "send"]
       /\ arg' = [arg EXCEPT ![p] = [NoArg EXCEPT !.conversationId = conversationId,
                                                 !.payload = Payload(t)]]
       /\ heap' = [heap EXCEPT ![p].caller = Payload(t)]
       /\ pc' = [pc EXCEPT ![p] = IF ok THEN "awaitGet" ELSE "failed"]
       /\ trace' = [trace EXCEPT ![p] = IF ok THEN <<Ev("get", conversationId)>> ELSE <<>>]
  /\ UNCHANGED <<ctx, sidx, rcv, mutated, convStore, msgStore>>

\* conversations.get rejects: send rejects.
SendGetRejects(p) ==
  /\ pc[p] = "awaitGet"
  /\ pc' = [pc EXCEPT ![p] = "failed"]
  /\ trace' = [trace EXCEPT ![p] = Append(@, Ev("get.reject", arg[p].conversationId))]
  /\ UNCHANGED <<scopeVars, kind, heap, arg, ctx, sidx, rcv, mutated, convStore, msgStore>>

\* conversations.get resolves: send builds the context, runs the renderer
\* chain and then the sender chain up to the first sender.send it awaits.
SendGetResolves(p, in) ==
  /\ pc[p] = "awaitGet"
  /\ \E fail \in in.fails, hs \in [1..Len(Senders) -> BOOLEAN] :
       LET conversation == GetConversation(convStore, arg[p].conversationId)
           t0 == Append(trace[p], Ev("conversation", conversation.id))
           cl == CloneDeep(heap[p])
           c0 == NewContext(cl.at, conversation)
           t1 == Append(t0, Ev("cloneDeep", CtxPayload(cl.heap, c0).type))
           rr == RunRenderers(cl.heap, c0, t1, 1, fail)
           sr == RunSenders(rr.trace, 1, hs)
           out == IF rr.failed THEN AfterRendererThrow(rr, sr) ELSE sr
       IN
       IF AfterGet(conversation) = "abort"
       THEN /\ pc' = [pc EXCEPT ![p] = "failed"]
            /\ trace' = [trace EXCEPT ![p] = t0]
            /\ UNCHANGED <<heap, ctx, sidx>>
       ELSE /\ heap' = [heap EXCEPT ![p] = rr.heap]
            /\ ctx' = [ctx EXCEPT ![p] = rr.ctx]
            /\ pc' = [pc EXCEPT ![p] = out.pc]
            /\ trace' = [trace EXCEPT ![p] = out.trace]
            /\ sidx' = [sidx EXCEPT ![p] = out.sidx]
  /\ UNCHANGED <<scopeVars, kind, arg, rcv, mutated, convStore, msgStore>>

\* The awaited sender.send resolves: the sender loop goes on.
SenderResolves(p) ==
  /\ pc[p] = "awaitSend"
  /\ \E hs \in [1..Len(Senders) -> BOOLEAN] :
       LET sr == RunSenders(Append(trace[p], Ev("s.resolve", Senders[sidx[p]])),
                            sidx[p] + 1, hs)
       IN
       /\ pc' = [pc EXCEPT ![p] = sr.pc]
       /\ trace' = [trace EXCEPT ![p] = sr.trace]
       /\ sidx' = [sidx EXCEPT ![p] = sr.sidx]
  /\ UNCHANGED <<scopeVars, kind, heap, arg, ctx, rcv, mutated, convStore, msgStore>>

\* The awaited sender.send rejects: send rejects.
SenderRejects(p) ==
  /\ pc[p] = "awaitSend"
  /\ \E hs \in [1..Len(Senders) -> BOOLEAN] :
       LET sr == AfterSendRejected(trace[p], sidx[p], hs) IN
       /\ pc' = [pc EXCEPT ![p] = sr.pc]
       /\ trace' = [trace EXCEPT ![p] = sr.trace]
       /\ sidx' = [sidx EXCEPT ![p] = sr.sidx]
  /\ UNCHANGED <<scopeVars, kind, heap, arg, ctx, rcv, mutated, convStore, msgStore>>

\* The caller of send writes to its payload object while send is suspended.
CallerMutates(p, in) ==
  /\ kind[p] = "send"
  /\ pc[p] \in {"awaitGet", "awaitSend"}
  /\ mutated[p] = "no"
  /\ \E t \in in.types \ {heap[p].caller.type} :
       /\ heap' = [heap EXCEPT ![p].caller = Payload(t)]
       /\ mutated' = [mutated EXCEPT ![p] = t]
  /\ UNCHANGED <<scopeVars, pc, kind, arg, ctx, sidx, rcv, trace, convStore, msgStore>>

\* ---------------------------------------------------------------- receive
\* Variant: only the bare string shape is read.
GetNestedMissing(ref) == "undefined"

\* _.get(ctx, 'channel.id')
GetNested(ref) == IF ref.shape = "object" THEN ref.id ELSE "undefined"

\* _.get(ctx, 'channel')
GetBare(ref) ==
  CASE ref.shape = "object" -> "[object]"
    [] ref.shape = "string" -> ref.id
    [] OTHER -> "undefined"

\* a || b on what _.get returned.
JsOr(a, b) == IF a \notin {"undefined", ""} THEN a ELSE b

\* _.get(ctx, 'channel.id') || _.get(ctx, 'channel')
ResolveRef(ref) == JsOr(GetNested(ref), GetBare(ref))

\* The id the store gives a conversation it creates for a channel.
NewConvId(channelId) ==
  CASE channelId = "C1" -> "c1"
    [] channelId = "C2" -> "c2"
    [] OTHER -> "c0"

\* conversations.forBot(botId).recent(channelId), once resolved: the
\* conversation of that channel, created when there is none.
Recent(store, channelId) ==
  IF \E c \in store : c.userId = channelId
  THEN CHOOSE c \in store : c.userId = channelId
  ELSE [id |-> NewConvId(channelId), userId |-> channelId]

\* { type: 'quick_reply', text: label, payload: value }
QuickReply(label, value) == [type |-> "quick_reply", text |-> label, payload |-> value]

\* receive(ctx, payload), called with trace t0 behind it, up to its first
\* await: the identifiers are resolved, forBot runs, recent is called.
ReceiveCall(p, ck, event, inbound, t0) ==
  LET r == ForBot(scopes["conversations"], ThisBotId, ck, nextInst)
      ok == ~r.threw /\ Truthy(r.value)
      channelId == ResolveRef(event.channel)
      userId == ResolveRef(event.user)
      t1 == Append(t0, Ev("receive", inbound.type))
  IN
  /\ DoForBot("conversations", ThisBotId, ck)
  /\ rcv' = [rcv EXCEPT ![p] = [NoRcv EXCEPT !.channelId = channelId, !.userId = userId,
                                              !.payload = inbound]]
  /\ pc' = [pc EXCEPT ![p] = IF ok THEN "awaitRecent" ELSE "failed"]
  /\ trace' = [trace EXCEPT ![p] = IF ok THEN Append(t1, Ev("recent", channelId)) ELSE t1]

\* receive called from outside the listeners (the channel's exposed surface).
ReceiveStart(p, in) ==
  /\ pc[p] = "idle"
  /\ \E event \in in.events, ck \in in.creates :
       LET inbound == [type |-> "text", text |-> "hi", payload |-> ""] IN
       /\ ReceiveCall(p, ck, event, inbound, <<>>)
       /\ kind' = [kind EXCEPT ![p] = "receive"]
       /\ arg' = [arg EXCEPT ![p] = [NoArg EXCEPT !.event = event]]
  /\ UNCHANGED <<heap, ctx, sidx, mutated, convStore, msgStore>>

\* recent resolves: forBot runs on the message service, create is called.
RecentResolves(p, in) ==
  /\ pc[p] = "awaitRecent"
  /\ \E ck \in in.creates :
       LET conversation == Recent(convStore, rcv[p].channelId)
           r == ForBot(scopes["messages"], ThisBotId, ck, nextInst)
           ok == ~r.threw /\ Truthy(r.value)
       IN
       /\ convStore' = convStore \cup {conversation}
       /\ DoForBot("messages", ThisBotId, ck)
       /\ rcv' = [rcv EXCEPT ![p].conversationId = conversation.id]
       /\ pc' = [pc EXCEPT ![p] = IF ok THEN "awaitCreate" ELSE "failed"]
       /\ trace' = [trace EXCEPT ![p] =
                      IF ok THEN Append(@, Ev("create", conversation.id)) ELSE @]
  /\ UNCHANGED <<kind, heap, arg, ctx, sidx, mutated, msgStore>>

\* recent rejects: receive rejects.
RecentRejects(p) ==
  /\ pc[p] = "awaitRecent"
  /\ pc' = [pc EXCEPT ![p] = "failed"]
  /\ UNCHANGED <<scopeVars, kind, heap, arg, ctx, sidx, rcv, trace, mutated, convStore, msgStore>>

\* create resolves: the message is stored, receive logs it and returns.
CreateResolves(p) ==
  /\ pc[p] = "awaitCreate"
  /\ msgStore' = Append(msgStore, [conversationId |-> rcv[p].conversationId,
                                   payload |-> rcv[p].payload,
                                   userId |-> rcv[p].userId, by |-> p])
  /\ pc' = [pc EXCEPT ![p] = "done"]
  /\ UNCHANGED <<scopeVars, kind, heap, arg, ctx, sidx, rcv, trace, mutated, convStore>>

\* create rejects: receive rejects.
CreateRejects(p) ==
  /\ pc[p] = "awaitCreate"
  /\ pc' = [pc EXCEPT ![p] = "failed"]
  /\ UNCHANGED <<scopeVars, kind, heap, arg, ctx, sidx, rcv, trace, mutated, convStore, msgStore>>

\* ----------------------------------------------------- interactive: button
\* Variant: the action id is compared for equality.
ExactMatch(actionId, prefix) == actionId = prefix

\* actionId.startsWith(prefix)
StartsWith(actionId, prefix) ==
  /\ Len(actionId) >= Len(prefix)
  /\ SubSeq(actionId, 1, Len(prefix)) = prefix

\* Variant: the remove_buttons branch is missing.
ButtonRouteNoRemove(actionId) ==
  IF ~StartsWith(actionId, <<"discard_action">>)
  THEN IF StartsWith(actionId, <<"replace_buttons">>) THEN "replace" ELSE "plain"
  ELSE "discard"

\* Variant: every action that is not discarded replaces the buttons.
ButtonRouteAlwaysReplace(actionId) ==
  IF ~StartsWith(actionId, <<"discard_action">>) THEN "replace" ELSE "discard"

\* The branch the button listener takes for an action id.
ButtonRoute(actionId) ==
  IF ~StartsWith(actionId, <<"discard_action">>)
  THEN IF StartsWith(actionId, <<"replace_buttons">>) THEN "replace"
       ELSE IF StartsWith(actionId, <<"remove_buttons">>) THEN "remove"
       ELSE "plain"
  ELSE "discard"

\* The button listener, up to its first await.
ButtonStart(p, in) ==
  /\ pc[p] = "idle"
  /\ \E actionId \in ActionIds, event \in in.events, ck \in in.creates :
       LET route == ButtonRoute(actionId)
           label == "Yes"
           value == "yes"
       IN
       /\ kind' = [kind EXCEPT ![p] = "button"]
       /\ arg' = [arg EXCEPT ![p] = [NoArg EXCEPT !.event = event, !.actionId = actionId,
                                                 !.label = label, !.value = value]]
       /\ CASE route = "discard" ->
                 /\ pc' = [pc EXCEPT ![p] = "done"]
                 /\ UNCHANGED <<scopeVars, rcv, trace>>
            [] route \in {"replace", "remove"} ->
                 /\ pc' = [pc EXCEPT ![p] = "awaitPost"]
                 /\ trace' = [trace EXCEPT ![p] = <<Ev("axios.post", route)>>]
                 /\ UNCHANGED <<scopeVars, rcv>>
            [] OTHER ->
                 ReceiveCall(p, ck, event, QuickReply(label, value), <<>>)
  /\ UNCHANGED <<heap, ctx, sidx, mutated, convStore, msgStore>>

\* axios.post resolves: the listener calls receive.
ButtonPostResolves(p, in) ==
  /\ pc[p] = "awaitPost"
  /\ \E ck \in in.creates :
       ReceiveCall(p, ck, arg[p].event, QuickReply(arg[p].label, arg[p].value),
                   Append(trace[p], Ev("axios.resolve", "")))
  /\ UNCHANGED <<kind, heap, arg, ctx, sidx, mutated, convStore, msgStore>>

\* axios.post rejects: the listener rejects.
ButtonPostRejects(p) ==
  /\ pc[p] = "awaitPost"
  /\ pc' = [pc EXCEPT ![p] = "failed"]
  /\ trace' = [trace EXCEPT ![p] = Append(@, Ev("axios.reject", ""))]
  /\ UNCHANGED <<scopeVars, kind, heap, arg, ctx, sidx, rcv, mutated, convStore, msgStore>>


\* ------------------------------------------------------ listener: messages
\* const discardedSubtypes = [...]
DiscardedSubtypes == {"bot_message", "message_deleted", "message_changed"}

\* Variant: only the bot flag is tested.
PassesIgnoringSubtype(msg) == msg.botId \in {"undefined", ""}

\* !discardedSubtypes.includes(payload.subtype) && !payload.bot_id
MessagePasses(msg) ==
  /\ msg.subtype \notin DiscardedSubtypes
  /\ msg.botId \in {"undefined", ""}

\* _.at(payload, ['text', 'files.0.name', 'files.0.title'])
Candidates(msg) == <<msg.text, msg.fileName, msg.fileTitle>>

\* (x) => x && x.length
NonEmpty(x) == x \notin {"undefined", ""}

\* Variant: the last candidate the predicate accepts wins.
RECURSIVE FindLastFrom(_, _)
FindLastFrom(list, i) ==
  IF i > Len(list) THEN "undefined"
  ELSE IF FindLastFrom(list, i + 1) # "undefined" THEN FindLastFrom(list, i + 1)
  ELSE IF NonEmpty(list[i]) THEN list[i]
  ELSE "undefined"

\* _.find(list, predicate) from element i on: the first element the
\* predicate accepts, undefined when there is none.
RECURSIVE FindFrom(_, _)
FindFrom(list, i) ==
  IF i > Len(list) THEN "undefined"
  ELSE IF NonEmpty(list[i]) THEN list[i]
  ELSE FindFrom(list, i + 1)

\* _.find(_.at(payload, [...]), (x) => x && x.length)
Find(list) == FindFrom(list, 1)

\* _.find(...) || 'N/A'
ExtractText(msg) == JsOr(Find(Candidates(msg)), "N/A")

\* The message listener, up to its first await.
MessageStart(p, in) ==
  /\ pc[p] = "idle"
  /\ \E subtype \in Subtypes, botId \in BotFlags, text \in Texts,
        fileName \in FileNames, fileTitle \in FileTitles,
        event \in in.events, ck \in in.creates :
       LET msg == [subtype |-> subtype, botId |-> botId, text |-> text,
                   fileName |-> fileName, fileTitle |-> fileTitle]
       IN
       /\ kind' = [kind EXCEPT ![p] = "message"]
       /\ arg' = [arg EXCEPT ![p] = [NoArg EXCEPT !.event = event, !.msg = msg]]
       /\ IF MessagePasses(msg)
          THEN ReceiveCall(p, ck, event,
                           [type |-> "text", text |-> ExtractText(msg), payload |-> ""], <<>>)
          ELSE /\ pc' = [pc EXCEPT ![p] = "done"]
               /\ UNCHANGED <<scopeVars, rcv, trace>>
  /\ UNCHANGED <<heap, ctx, sidx, mutated, convStore, msgStore>>

\* ------------------------------------------- interactive: option_selected
\* _.get(payload, 'actions[0].selected_option.text.text', '')
OptionLabel(actions, label) == IF actions = "full" THEN label ELSE ""

\* _.get(payload, 'actions[0].selected_option.value', '')
OptionValue(actions, value) == IF actions = "full" THEN value ELSE ""

\* Variant: the option is confirmed to the response url first.
OptionPostsReplace(label) == <<Ev("axios.post", "replace")>>

\* The posts the option_selected listener makes before receive: none.
OptionPosts(label) == <<>>

\* The option_selected listener, up to its first await.
OptionStart(p, in) ==
  /\ pc[p] = "idle"
  /\ \E actions \in ActionShapes, event \in in.events, ck \in in.creates :
       LET label == OptionLabel(actions, "Yes")
           value == OptionValue(actions, "yes")
       IN
       /\ kind' = [kind EXCEPT ![p] = "option"]
       /\ arg' = [arg EXCEPT ![p] = [NoArg EXCEPT !.event = event, !.actions = actions,
                                                 !.label = "Yes", !.value = "yes"]]
       /\ ReceiveCall(p, ck, event, QuickReply(label, value), OptionPosts(label))
  /\ UNCHANGED <<heap, ctx, sidx, mutated, convStore, msgStore>>

\* ----------------------------------------- interactive: feedback-overflow
\* blockId.replace('feedback-', ''): the first occurrence is removed.
RECURSIVE ReplaceFirst(_, _)
ReplaceFirst(blockId, token) ==
  IF Len(blockId) = 0 THEN <<>>
  ELSE IF Head(blockId) = token THEN Tail(blockId)
  ELSE <<Head(blockId)>> \o ReplaceFirst(Tail(blockId), token)

\* parseInt(selectedOption)
ParseInt(text) == IF text \in {"1", "2", "3"} THEN text ELSE "NaN"

\* What the feedback listener does with the event id and the rating it
\* parsed: the lookup and the update are commented out.
FeedbackCalls(eventId, feedback) == <<>>

\* The feedback-overflow listener: it has no await.
FeedbackStart(p) ==
  /\ pc[p] = "idle"
  /\ \E actions \in ActionShapes, blockId \in BlockIds, selected \in Ratings :
       /\ kind' = [kind EXCEPT ![p] = "feedback"]
       /\ arg' = [arg EXCEPT ![p] = [NoArg EXCEPT !.actions = actions, !.blockId = blockId,
                                                 !.selected = selected]]
       /\ IF actions = "full"
          THEN LET incomingEventId == ReplaceFirst(blockId, "feedback-")
                   feedback == ParseInt(selected)
               IN
               /\ rcv' = [rcv EXCEPT ![p] = [NoRcv EXCEPT !.eventId = incomingEventId,
                                                         !.feedback = feedback]]
               /\ trace' = [trace EXCEPT ![p] = FeedbackCalls(incomingEventId, feedback)]
               /\ pc' = [pc EXCEPT ![p] = "done"]
          ELSE \* payload.actions[0] or action.selected_option is undefined:
               \* reading a property of it throws a TypeError.
               /\ pc' = [pc EXCEPT ![p] = "failed"]
               /\ UNCHANGED <<rcv, trace>>
  /\ UNCHANGED <<scopeVars, heap, ctx, sidx, mutated, convStore, msgStore>>

\* --------------------------------------------------------- specifications
ChanInit ==
  /\ pc = [p \in Procs |-> "idle"]
  /\ kind = [p \in Procs |-> "none"]
  /\ heap = [p \in Procs |-> [caller |-> Payload("none"), ctx |-> Payload("none")]]
  /\ arg = [p \in Procs |-> NoArg]
  /\ ctx = [p \in Procs |-> NoCtx]
  /\ sidx = [p \in Procs |-> 0]
  /\ rcv = [p \in Procs |-> NoRcv]
  /\ trace = [p \in Procs |-> <<>>]
  /\ mutated = [p \in Procs |-> "no"]
  /\ convStore = {[id |-> "c1", userId |-> "C1"]}
  /\ msgStore = <<>>

vars == <<scopes, nextInst, creates, calls,
          pc, kind, heap, arg, ctx, sidx, rcv, trace, mutated, convStore, msgStore>>

Init == ScopeInit /\ ChanInit

\* The scope cache on its own: forBot called directly on the services.
Next == CallForBot /\ UNCHANGED chanVars

Spec == Init /\ [][Next]_vars

\* One send in flight, with every input and every fault.
NextSend ==
  \/ SendStart(1, AllInputs)
  \/ SendGetRejects(1)
  \/ SendGetResolves(1, AllInputs)
  \/ SenderResolves(1)
  \/ SenderRejects(1)
  \/ CallerMutates(1, AllInputs)

SpecSend == Init /\ [][NextSend]_vars

\* Two invocations of send and receive in flight at once.
NextChannel ==
  \E p \in Procs :
    \/ SendStart(p, FewInputs)
    \/ SendGetRejects(p)
    \/ SendGetResolves(p, FewInputs)
    \/ SenderResolves(p)
    \/ SenderRejects(p)
    \/ CallerMutates(p, FewInputs)
    \/ ReceiveStart(p, FewInputs)
    \/ RecentResolves(p, FewInputs)
    \/ RecentRejects(p)
    \/ CreateResolves(p)
    \/ CreateRejects(p)

SpecChannel == Init /\ [][NextChannel]_vars

\* The interactive listeners, two webhook deliveries in flight at once.
NextInbound ==
  \E p \in Procs :
    \/ ButtonStart(p, AllInputs)
    \/ ButtonPostResolves(p, AllInputs)
    \/ ButtonPostRejects(p)
    \/ RecentResolves(p, AllInputs)
    \/ RecentRejects(p)
    \/ CreateResolves(p)
    \/ CreateRejects(p)

SpecInbound == Init /\ [][NextInbound]_vars

\* The message, option_selected and feedback listeners: one webhook
\* delivery, with every shape of event.
NextListeners ==
  \/ MessageStart(1, LooseInputs)
  \/ OptionStart(1, LooseInputs)
  \/ FeedbackStart(1)
  \/ RecentResolves(1, LooseInputs)
  \/ RecentRejects(1)
  \/ CreateResolves(1)
  \/ CreateRejects(1)

SpecListeners == Init /\ [][NextListeners]_vars

\* ------------------------------------------------------------- properties
Who(events) == [i \in 1..Len(events) |-> events[i].who]
IsHandles(e) == e.op = "r.handles"
IsRender(e) == e.op = "r.render"
IsRendererEvent(e) == e.op \in {"r.handles", "r.render", "r.throw"}
IsSenderEvent(e) == e.op \in {"s.handles", "s.send", "s.resolve", "s.reject"}
HasOp(t, op) == \E k \in DOMAIN t : t[k].op = op

\* The createScope invocations a service made for a bot id.
CreatesFor(svc, bot) ==
  {i \in DOMAIN creates : creates[i].svc = svc /\ creates[i].bot = bot}

\* The forBot calls a service received for a bot id.
CallsFor(svc, bot) ==
  {i \in DOMAIN calls : calls[i].svc = svc /\ calls[i].bot = bot}

\* Every createScope so far returned a new object or threw.
AllFresh == \A i \in DOMAIN creates : creates[i].ck \in {"fresh", "throw"}

\* C1: on one service, when createScope returns a new instance on each
\* invocation, two forBot calls return the identical instance exactly when
\* they were made with the same bot id.
C1_SameBotSameInstance ==
  AllFresh =>
    \A i, j \in DOMAIN calls :
      (calls[i].svc = calls[j].svc /\ ~calls[i].threw /\ ~calls[j].threw) =>
        (calls[i].bot = calls[j].bot <=> calls[i].value = calls[j].value)

C1_Witness ==
  /\ AllFresh
  /\ \E i, j, k \in DOMAIN calls :
       /\ i < j /\ j < k
       /\ calls[i].svc = calls[j].svc /\ calls[j].svc = calls[k].svc
       /\ calls[i].bot = calls[j].bot /\ calls[k].bot # calls[i].bot
       /\ ~calls[i].threw /\ ~calls[j].threw /\ ~calls[k].threw
       /\ calls[i].value = calls[j].value /\ calls[k].value # calls[i].value

\* C2: when no createScope fails, createScope is invoked exactly once for
\* every bot id forBot was called with, whatever it returns, and never for
\* another id; only the first forBot call for an id invokes it.
C2_CreatedExactlyOnce ==
  (\A i \in DOMAIN creates : creates[i].ck # "throw") =>
    \A svc \in Services, bot \in BotIds :
      /\ Cardinality(CreatesFor(svc, bot)) = IF CallsFor(svc, bot) = {} THEN 0 ELSE 1
      /\ \A i, j \in CallsFor(svc, bot) : i < j => ~calls[j].invoked

\* The forBot call after a failed one, for the same service and bot id,
\* invokes createScope.
C3_NextCallRetries ==
  \A i \in DOMAIN calls :
    calls[i].threw =>
      /\ calls[i].invoked
      /\ \A j \in CallsFor(calls[i].svc, calls[i].bot) :
           (j > i /\ \A k \in CallsFor(calls[i].svc, calls[i].bot) : ~(i < k /\ k < j))
             => calls[j].invoked

\* A step that is a forBot call which threw leaves every map as it was.
C3_ThrowLeavesCache ==
  (Len(calls') = Len(calls) + 1 /\ calls'[Len(calls')].threw) => scopes' = scopes

\* C3: a forBot call in which createScope fails throws, stores nothing (the
\* entry of that id and of every other id is as before), and the next forBot
\* call for that id invokes createScope again.
C3_FailureNotCached == []C3_NextCallRetries /\ [][C3_ThrowLeavesCache]_vars

C3_Witness ==
  \E i, j \in DOMAIN calls :
    /\ i < j
    /\ calls[i].threw /\ calls[j].svc = calls[i].svc /\ calls[j].bot = calls[i].bot
    /\ calls[j].invoked /\ ~calls[j].threw /\ Truthy(calls[j].value)
    /\ \E k \in DOMAIN calls : k < i /\ calls[k].svc = calls[i].svc /\ calls[k].bot # calls[i].bot
                               /\ Truthy(calls[k].value)

\* C4 as stated, even granted that createScope never returns a falsy value:
\* each service invokes createScope at most once for the channel's bot id and
\* all callers observe the same instance.
C4_InvokedAtMostOnce ==
  (\A i \in DOMAIN creates : creates[i].ck # "falsy") =>
    \A svc \in Services :
      /\ Cardinality(CreatesFor(svc, ThisBotId)) <= 1
      /\ \A i, j \in CallsFor(svc, ThisBotId) : calls[i].value = calls[j].value

\* C4, amended: among interleaved send and receive invocations, at most one
\* createScope invocation per service returns an instance for the channel's
\* bot id, no createScope is invoked once one has, and every caller that
\* obtains an instance obtains that one.
C4_SingleFlight ==
  \A svc \in Services :
    /\ Cardinality({i \in CreatesFor(svc, ThisBotId) :
                      creates[i].ck \in {"fresh", "shared"}}) <= 1
    /\ \A i, j \in CallsFor(svc, ThisBotId) :
         /\ (Truthy(calls[i].value) /\ Truthy(calls[j].value))
              => calls[i].value = calls[j].value
         /\ (i < j /\ Truthy(calls[i].value)) => ~calls[j].invoked

C4_Witness ==
  /\ pc[1] = "awaitGet" /\ pc[2] = "awaitRecent"
  /\ Cardinality(CallsFor("conversations", ThisBotId)) = 2
  /\ Cardinality(CreatesFor("conversations", ThisBotId)) = 1
  /\ \A i \in CallsFor("conversations", ThisBotId) : Truthy(calls[i].value)

\* C5: send never writes to the caller's payload object, and the payload
\* its context is seeded with is the payload the caller passed, whatever
\* the caller writes to its object while send is suspended.
C5_PayloadIsolated ==
  \A p \in Procs :
    kind[p] = "send" =>
      /\ heap[p].caller =
           Payload(IF mutated[p] = "no" THEN arg[p].payload.type ELSE mutated[p])
      /\ \A k \in DOMAIN trace[p] :
           trace[p][k].op = "cloneDeep" => trace[p][k].who = arg[p].payload.type

\* The renderers that fire for a payload, in order.
ExpectedFired(type) ==
  CASE type = "text" -> <<"text">>
    [] type = "image" -> <<"image">>
    [] type = "card" -> <<"card", "carousel">>
    [] type = "choices" -> <<"text", "choices">>
    [] type = "feedback" -> <<"feedback">>
    [] OTHER -> <<>>

\* The payload a send's context was seeded with.
SeededType(t) == t[CHOOSE k \in DOMAIN t : t[k].op = "cloneDeep"].who

\* C6: in a send whose renderers do not throw, every renderer is consulted
\* once, in the order of setupRenderers; every renderer that handles the
\* payload renders, so that the renderers that fire and their order are
\* a function of the payload; each one that fired left one handler marker.
C6_RenderersInOrder ==
  \A p \in Procs :
    (kind[p] = "send" /\ HasOp(trace[p], "cloneDeep") /\ ~HasOp(trace[p], "r.throw")) =>
      /\ Who(SelectSeq(trace[p], IsHandles)) = Renderers
      /\ Who(SelectSeq(trace[p], IsRender)) = ExpectedFired(SeededType(trace[p]))
      /\ Len(ctx[p].handlers) = Len(ExpectedFired(SeededType(trace[p])))

C6_Witness ==
  /\ kind[1] = "send" /\ pc[1] = "done"
  /\ HasOp(trace[1], "cloneDeep") /\ SeededType(trace[1]) = "choices"
  /\ Who(SelectSeq(trace[1], IsRender)) = <<"text", "choices">>

\* C7: once a sender's send has failed, the send call is over: it has
\* failed, that sender was sent to once, and nothing was invoked after it.
C7_SenderFailureStops ==
  \A p \in Procs : \A k \in DOMAIN trace[p] :
    trace[p][k].op = "s.reject" =>
      /\ k = Len(trace[p])
      /\ pc[p] = "failed"
      /\ Cardinality({j \in DOMAIN trace[p] :
                        trace[p][j] = Ev("s.send", trace[p][k].who)}) = 1

C7_Witness ==
  /\ pc[1] = "failed"
  /\ Len(trace[1]) > 0
  /\ trace[1][Len(trace[1])] = Ev("s.reject", "typing")

\* C8: once a renderer's handles or render has thrown, the send call is
\* over: it has failed, nothing was invoked after the throw, and no sender
\* was invoked at all.
C8_RendererFailureStops ==
  \A p \in Procs : \A k \in DOMAIN trace[p] :
    trace[p][k].op = "r.throw" =>
      /\ k = Len(trace[p])
      /\ pc[p] = "failed"
      /\ \A j \in DOMAIN trace[p] : ~IsSenderEvent(trace[p][j])

C8_Witness ==
  /\ pc[1] = "failed"
  /\ Len(trace[1]) > 2
  /\ trace[1][Len(trace[1])] = Ev("r.throw", "text")
  /\ trace[1][Len(trace[1]) - 1] = Ev("r.render", "text")

\* C9: a send whose conversation id resolves to no conversation fails, and
\* invokes no renderer and no sender.
C9_UnknownConversationAborts ==
  \A p \in Procs :
    (kind[p] = "send" /\ \E k \in DOMAIN trace[p] :
                           trace[p][k] = Ev("conversation", "undefined")) =>
      /\ pc[p] = "failed"
      /\ \A j \in DOMAIN trace[p] :
           ~IsRendererEvent(trace[p][j]) /\ ~IsSenderEvent(trace[p][j])

\* An action id that begins with 'discard_action'.
IsDiscardTagged(actionId) == Len(actionId) >= 1 /\ actionId[1] = "discard_action"

\* C10: a button action tagged discard_action posts nothing to the response
\* url and does not call receive: no conversation is looked up and no
\* message is created for it.
C10_DiscardedButtonIsSilent ==
  \A p \in Procs :
    (kind[p] = "button" /\ IsDiscardTagged(arg[p].actionId)) =>
      /\ trace[p] = <<>>
      /\ pc[p] = "done"
      /\ rcv[p] = NoRcv
      /\ \A m \in DOMAIN msgStore : msgStore[m].by # p

C10_Witness ==
  /\ kind[1] = "button" /\ arg[1].actionId = <<"discard_action", "_1">> /\ pc[1] = "done"
  /\ kind[2] = "button" /\ pc[2] = "done" /\ Len(msgStore) = 1

\* The control-mutation call a button action id asks for, if any.
MutationOf(actionId) ==
  IF Len(actionId) = 0 THEN "none"
  ELSE CASE actionId[1] = "replace_buttons" -> "replace"
         [] actionId[1] = "remove_buttons" -> "remove"
         [] OTHER -> "none"

IsPost(e) == e.op = "axios.post"
IsReceive(e) == e.op = "receive"

\* C11: a button action tagged replace_buttons (remove_buttons) posts once
\* to the response url, the replacement (the deletion), before anything
\* else; receive is called only after that post has resolved, once, with
\* the quick reply carrying the button's label and value.
C11_MutationBeforeReceive ==
  \A p \in Procs :
    (kind[p] = "button" /\ MutationOf(arg[p].actionId) # "none") =>
      /\ Len(trace[p]) >= 1
      /\ trace[p][1] = Ev("axios.post", MutationOf(arg[p].actionId))
      /\ Len(SelectSeq(trace[p], IsPost)) = 1
      /\ pc[p] = "awaitPost" <=> Len(trace[p]) = 1
      /\ HasOp(trace[p], "receive") =>
           /\ trace[p][2] = Ev("axios.resolve", "")
           /\ trace[p][3] = Ev("receive", "quick_reply")
           /\ Len(SelectSeq(trace[p], IsReceive)) = 1
           /\ rcv[p].payload = QuickReply(arg[p].label, arg[p].value)

C11_Witness ==
  /\ kind[1] = "button" /\ arg[1].actionId = <<"remove_buttons", "_1">>
  /\ pc[1] = "done" /\ HasOp(trace[1], "receive")
  /\ kind[2] = "button" /\ arg[2].actionId = <<"replace_buttons">>
  /\ pc[2] = "awaitCreate"

\* C20: when the post of a replace_buttons or remove_buttons action is
\* rejected the listener fails without calling receive; a button action
\* with none of the three prefixes calls receive with the quick reply and
\* posts nothing.
C20_PostFailureStops ==
  \A p \in Procs :
    kind[p] = "button" =>
      /\ HasOp(trace[p], "axios.reject") =>
           /\ pc[p] = "failed"
           /\ ~HasOp(trace[p], "receive")
           /\ rcv[p] = NoRcv
           /\ trace[p][Len(trace[p])].op = "axios.reject"
           /\ \A m \in DOMAIN msgStore : msgStore[m].by # p
      /\ (MutationOf(arg[p].actionId) = "none" /\ ~IsDiscardTagged(arg[p].actionId)) =>
           /\ ~HasOp(trace[p], "axios.post")
           /\ trace[p][1] = Ev("receive", "quick_reply")
           /\ rcv[p].payload = QuickReply(arg[p].label, arg[p].value)

C20_Witness ==
  /\ kind[1] = "button" /\ HasOp(trace[1], "axios.reject") /\ pc[1] = "failed"
  /\ kind[2] = "button" /\ arg[2].actionId = <<"say", "discard_action">>
  /\ pc[2] = "done" /\ Len(msgStore) = 1

\* A message event that is noise: its subtype is one of the three discarded
\* ones, or it carries the id of a bot.
IsNoise(msg) ==
  \/ msg.subtype = "bot_message"
  \/ msg.subtype = "message_deleted"
  \/ msg.subtype = "message_changed"
  \/ msg.botId = "B1"

MessagesBy(p) == {m \in DOMAIN msgStore : msgStore[m].by = p}

\* C12: a message event that is noise calls nothing: no receive, no lookup,
\* no message stored; every other message event calls receive once, first
\* thing, with a text payload.
C12_NoiseIsDropped ==
  \A p \in Procs :
    kind[p] = "message" =>
      IF IsNoise(arg[p].msg)
      THEN /\ trace[p] = <<>>
           /\ pc[p] = "done"
           /\ rcv[p] = NoRcv
           /\ MessagesBy(p) = {}
      ELSE /\ Len(SelectSeq(trace[p], IsReceive)) = 1
           /\ trace[p][1] = Ev("receive", "text")
           /\ rcv[p].payload.type = "text"
           /\ pc[p] = "done" => Cardinality(MessagesBy(p)) = 1

C12_Witness ==
  /\ kind[1] = "message" /\ pc[1] = "done"
  /\ arg[1].msg.subtype = "message_changed" /\ arg[1].msg.botId = "undefined"
  /\ arg[1].msg.text = "hi"

\* The text of a message event: the primary text, else the first file's
\* name, else the first file's title, else 'N/A'.
FirstNonEmpty(msg) ==
  IF msg.text \notin {"undefined", ""} THEN msg.text
  ELSE IF msg.fileName \notin {"undefined", ""} THEN msg.fileName
  ELSE IF msg.fileTitle \notin {"undefined", ""} THEN msg.fileTitle
  ELSE "N/A"

\* C13: the text handed to receive for a message event is the first
\* non-empty of text, first file's name, first file's title, and 'N/A'
\* when there is none.
C13_TextFallback ==
  \A p \in Procs :
    (kind[p] = "message" /\ HasOp(trace[p], "receive")) =>
      /\ rcv[p].payload.text = FirstNonEmpty(arg[p].msg)
      /\ \A m \in MessagesBy(p) : msgStore[m].payload.text = FirstNonEmpty(arg[p].msg)

C13_Witness ==
  /\ kind[1] = "message" /\ pc[1] = "done"
  /\ arg[1].msg.text = "" /\ arg[1].msg.fileName = "a.png" /\ arg[1].msg.fileTitle = "Title"
  /\ Len(msgStore) = 1 /\ msgStore[1].payload.text = "a.png"

\* C14: an option_selected action calls receive once, first thing, with the
\* quick reply made of the selected option's label and value, posts nothing
\* to the response url, and stores one message when receive completes.
C14_OptionSelected ==
  \A p \in Procs :
    kind[p] = "option" =>
      /\ trace[p][1] = Ev("receive", "quick_reply")
      /\ Len(SelectSeq(trace[p], IsReceive)) = 1
      /\ ~HasOp(trace[p], "axios.post")
      /\ arg[p].actions = "full" =>
           rcv[p].payload = [type |-> "quick_reply", text |-> arg[p].label,
                             payload |-> arg[p].value]
      /\ pc[p] = "done" =>
           /\ Cardinality(MessagesBy(p)) = 1
           /\ \A m \in MessagesBy(p) : msgStore[m].payload = rcv[p].payload

C14_Witness ==
  /\ kind[1] = "option" /\ pc[1] = "done" /\ arg[1].actions = "full"
  /\ Len(msgStore) = 1
  /\ msgStore[1].payload = [type |-> "quick_reply", text |-> "Yes", payload |-> "yes"]

\* C15: a feedback action that was handled has forwarded the event id (the
\* block id without its 'feedback-' prefix) and the rating to the feedback
\* updater, and has not called receive.
C15_FeedbackForwarded ==
  \A p \in Procs :
    (kind[p] = "feedback" /\ pc[p] = "done") =>
      /\ HasOp(trace[p], "updateEvent")
      /\ ~HasOp(trace[p], "receive")
      /\ MessagesBy(p) = {}

\* An inbound event that lacks a required field.
IsMalformed(p) ==
  \/ kind[p] \in {"message", "option"}
       /\ (arg[p].event.channel.shape = "missing" \/ arg[p].event.user.shape = "missing")
  \/ kind[p] \in {"option", "feedback"} /\ arg[p].actions # "full"

\* C16: a listener given a malformed event is not failed by it, and the
\* event is dropped: no conversation is looked up, with an undefined
\* identifier or any other, and no message is created.
C16_MalformedIsDropped ==
  \A p \in Procs :
    IsMalformed(p) =>
      /\ kind[p] = "feedback" => pc[p] = "done"
      /\ ~HasOp(trace[p], "recent")
      /\ MessagesBy(p) = {}

Receives == {p \in Procs : kind[p] = "receive"}

\* C17: receive resolves the channel and the user to the id the event
\* carries, nested or bare; it asks the services for the channel's own bot
\* only; the conversation it uses is the stored one of that channel; and a
\* receive that completes has stored exactly one message, against that
\* conversation and user, so n completed receives have stored n messages.
C17_ReceiveStoresOne ==
  /\ \A i \in DOMAIN calls : calls[i].bot = ThisBotId
  /\ Len(msgStore) = Cardinality({p \in Receives : pc[p] = "done"})
  /\ \A p \in Receives :
       /\ rcv[p].channelId = arg[p].event.channel.id
       /\ rcv[p].userId = arg[p].event.user.id
       /\ rcv[p].conversationId # "none" =>
            [id |-> rcv[p].conversationId, userId |-> rcv[p].channelId] \in convStore
       /\ \A c1, c2 \in convStore : c1.userId = c2.userId => c1 = c2
       /\ pc[p] = "done" =>
            /\ Cardinality(MessagesBy(p)) = 1
            /\ \A m \in MessagesBy(p) :
                 /\ msgStore[m].conversationId = rcv[p].conversationId
                 /\ msgStore[m].userId = rcv[p].userId
                 /\ msgStore[m].payload = rcv[p].payload

C17_Witness ==
  /\ Receives = Procs /\ pc[1] = "done" /\ pc[2] = "done"
  /\ arg[1].event.channel = ObjRef("C1") /\ arg[2].event.channel = StrRef("C1")
  /\ Len(msgStore) = 2
  /\ msgStore[1].conversationId = "c1" /\ msgStore[2].conversationId = "c1"

IsSenderHandles(e) == e.op = "s.handles"

\* The position of a sender in the chain.
SenderIndex(name) == CHOOSE i \in DOMAIN Senders : Senders[i] = name

\* C18: in a send, every sender call comes after every renderer call, and
\* after all six renderers were consulted; senders are consulted in the
\* order of setupSenders, each once; a sender's send directly follows its
\* own handles, and the next sender's handles comes only after the previous
\* sender declined or its send resolved.
C18_SendersAfterRenderers ==
  \A p \in Procs :
    kind[p] = "send" =>
      LET t == trace[p]
          consulted == Who(SelectSeq(t, IsSenderHandles))
      IN
      /\ \A j, k \in DOMAIN t : (j < k /\ IsSenderEvent(t[j])) => ~IsRendererEvent(t[k])
      /\ (\E k \in DOMAIN t : IsSenderEvent(t[k])) =>
           /\ Who(SelectSeq(t, IsHandles)) = Renderers
           /\ ~HasOp(t, "r.throw")
      /\ consulted = SubSeq(Senders, 1, Len(consulted))
      /\ \A k \in DOMAIN t :
           /\ t[k].op = "s.send" => t[k - 1] = Ev("s.handles", t[k].who)
           /\ t[k].op \in {"s.resolve", "s.reject"} => t[k - 1] = Ev("s.send", t[k].who)
           /\ (t[k].op = "s.handles" /\ SenderIndex(t[k].who) > 1) =>
                LET prev == Senders[SenderIndex(t[k].who) - 1] IN
                t[k - 1] \in {Ev("s.handles", prev), Ev("s.resolve", prev)}
      /\ pc[p] = "awaitSend" <=> (Len(t) > 0 /\ t[Len(t)].op = "s.send")

C18_Witness ==
  /\ kind[1] = "send" /\ pc[1] = "awaitSend"
  /\ Len(trace[1]) > 3
  /\ trace[1][Len(trace[1])] = Ev("s.send", "common")
  /\ trace[1][Len(trace[1]) - 2] = Ev("s.resolve", "typing")

IsBlockRender(e) == e.op = "r.render" /\ e.who # "card"

\* The trace without a render that threw.
Returned(t) ==
  IF HasOp(t, "r.throw") /\ t[Len(t) - 1].op = "r.render"
  THEN SubSeq(t, 1, Len(t) - 2)
  ELSE t

\* The context of a send holds what its own renderers left, from empty.
C19_OwnContext ==
  \A p \in Procs :
    kind[p] = "send" =>
      IF ~HasOp(trace[p], "cloneDeep")
      THEN ctx[p] = NoCtx
      ELSE /\ ctx[p].blocks = Who(SelectSeq(Returned(trace[p]), IsBlockRender))
           /\ Len(ctx[p].handlers) = Len(SelectSeq(Returned(trace[p]), IsRender))
           /\ ctx[p].at = "ctx"

\* A step in which a send does not run leaves its context, and the payload
\* its context refers to, as they were.
C19_OthersLeaveContext ==
  \A p \in Procs :
    (pc'[p] = pc[p] /\ trace'[p] = trace[p]) =>
      /\ ctx'[p] = ctx[p]
      /\ CtxPayload(heap'[p], ctx'[p]) = CtxPayload(heap[p], ctx[p])

\* C19: each send builds its own context, whose blocks and markers start
\* empty and hold one marker per renderer that fired; no step of another
\* invocation, and no write of a caller to its payload, changes the blocks,
\* the markers or the payload of a context.
C19_ContextNotShared == []C19_OwnContext /\ [][C19_OthersLeaveContext]_vars

C19_Witness ==
  /\ kind[1] = "send" /\ kind[2] = "send"
  /\ pc[1] = "awaitSend" /\ pc[2] = "awaitSend"
  /\ ctx[1].blocks = <<"text">> /\ ctx[2].blocks = <<"carousel">>
  /\ Len(ctx[2].handlers) = 2 /\ mutated[1] # "no"

====
